---- MODULE Spec2Model ----
(***************************************************************************)
(* Quantum walk on the 16-node path graph                                  *)
(* (community/womanium/assignments/Dendy_Sapto_Adi_hw4.ipynb).             *)
(*                                                                         *)
(* A quantum state is a record [amp, hpow]: amp maps every computational   *)
(* basis value of the registers in scope to an integer numerator, and the  *)
(* amplitude of that basis value is amp / sqrt(2)^hpow.  Every gate of the *)
(* notebook (X, H, SWAP, controlled arithmetic, state preparation of the   *)
(* path-graph distributions) keeps amplitudes in this form, so the         *)
(* simulation is exact.                                                    *)
(***************************************************************************)
EXTENDS Integers, Sequences, FiniteSets, TLC

VARIABLES pc, i, q, prob, zd, inp, trace, width

vars == <<pc, i, q, prob, zd, inp, trace, width>>

----------------------------------------------------------------------------
(* Constants of the notebook *)

size == 4

num_nodes == 2^4

Nodes == 0..(num_nodes - 1)

Pairs == Nodes \X Nodes

Triples == Nodes \X Nodes \X (0..1)

XA == Nodes \X (0..1)

----------------------------------------------------------------------------
(* Exact amplitudes *)

\* Only({e(v) : v \in {y}}) is e(y), with y evaluated once and named v
Only(S) == CHOOSE e \in S : TRUE

\* the same vector with the common factors of 2 cancelled against hpow
RECURSIVE Reduce(_)
Reduce(s) ==
    Only({ IF v.hpow >= 2 /\ \A b \in DOMAIN v.amp : v.amp[b] % 2 = 0
           THEN Reduce([amp |-> [b \in DOMAIN v.amp |-> v.amp[b] \div 2],
                        hpow |-> v.hpow - 2])
           ELSE v : v \in {s} })

Supp(s) == {b \in DOMAIN s.amp : s.amp[b] # 0}

SuppPairs(s) == {<<b[1], b[2]>> : b \in Supp(s)}

RECURSIVE SumSq(_, _)
SumSq(s, B) ==
    IF B = {} THEN 0
    ELSE LET b == CHOOSE e \in B : TRUE
         IN  s.amp[b] * s.amp[b] + SumSq(s, B \ {b})

\* numerator of the probability that vertices = v; the denominator is 2^hpow
VProbNum(s, v) == SumSq(s, {b \in Supp(s) : b[1] = v})

BasisPair(v, a) ==
    [amp |-> [b \in Pairs |-> IF b = <<v, a>> THEN 1 ELSE 0], hpow |-> 0]

BasisReg(x) ==
    [amp |-> [k \in Nodes |-> IF k = x THEN 1 ELSE 0], hpow |-> 0]

----------------------------------------------------------------------------
(* zero_diffuzer and its parts: states over <<x, aux>> *)

\* allocate(1, aux): a fresh qubit in state 0 next to register x
allocate_aux(x) ==
    Only({ [amp |-> [b \in XA |-> IF b[2] = 0 THEN v.amp[b[1]] ELSE 0],
            hpow |-> v.hpow] : v \in {x} })

\* X(aux)
X_aux(y) ==
    Only({ [amp |-> [b \in XA |-> v.amp[<<b[1], 1 - b[2]>>]],
            hpow |-> v.hpow] : v \in {y} })

\* H(aux)
H_aux(y) ==
    Only({ [amp |-> [b \in XA |->
                       IF b[2] = 0
                       THEN v.amp[<<b[1], 0>>] + v.amp[<<b[1], 1>>]
                       ELSE v.amp[<<b[1], 0>>] - v.amp[<<b[1], 1>>]],
            hpow |-> v.hpow + 1] : v \in {y} })

\* a preparation that omits the X gate
prepare_plus(y) == H_aux(y)

\* prepare_minus: X(x) then H(x)
prepare_minus(y) == H_aux(X_aux(y))

\* an uncompute that replays the compute block instead of inverting it
inv_prepare_minus_replay(y) == H_aux(X_aux(y))

\* the uncompute block of within_apply: the inverse of X then H is H then X
inv_prepare_minus(y) == X_aux(H_aux(y))

\* the oracle with the comparison inverted
diffuzer_oracle_eq(y) ==
    Only({ [amp |-> [b \in XA |->
                       v.amp[<<b[1], IF b[1] = 0 THEN 1 - b[2] ELSE b[2]>>]],
            hpow |-> v.hpow] : v \in {y} })

\* aux ^= (x != 0)
diffuzer_oracle(y) ==
    Only({ [amp |-> [b \in XA |->
                       v.amp[<<b[1], IF b[1] # 0 THEN 1 - b[2] ELSE b[2]>>]],
            hpow |-> v.hpow] : v \in {y} })

\* zero_diffuzer up to the point where aux goes out of scope
zero_diffuzer_aux(x) ==
    inv_prepare_minus(diffuzer_oracle(prepare_minus(allocate_aux(x))))

\* zero_diffuzer as seen by its caller: register x once aux is released
zero_diffuzer(x) ==
    Only({ [amp |-> [k \in Nodes |-> v.amp[<<k, 0>>]], hpow |-> v.hpow]
           : v \in {zero_diffuzer_aux(x)} })

----------------------------------------------------------------------------
(* C_iteration: the probability vector *)

\* probabilities are exact fractions <<numerator, denominator>>
P_0 == <<0, 1>>

P_1_0 == <<1, 1>>

P_0_5 == <<1, 2>>

\* the assignments without the two boundary cases
ProbWritesNoEnds(n) ==
    << <<n - 1, P_0_5>>, <<n + 1, P_0_5>> >>

\* the list assignments prob[k] = p of C_iteration, in order
ProbWrites(n) ==
    IF n = 0 THEN << <<n + 1, P_1_0>> >>
    ELSE IF n = num_nodes - 1 THEN << <<n - 1, P_1_0>> >>
    ELSE << <<n - 1, P_0_5>>, <<n + 1, P_0_5>> >>

\* Python list index: a negative index counts from the end
PyIndex(k) == IF k < 0 THEN k + num_nodes ELSE k

RECURSIVE ListAssign(_, _)
ListAssign(vec, ws) ==
    IF ws = <<>> THEN vec
    ELSE LET k == PyIndex(Head(ws)[1])
         IN  ListAssign(IF k \in Nodes
                        THEN [vec EXCEPT ![k] = Head(ws)[2]]
                        ELSE vec,
                        Tail(ws))

\* prob = [0] * num_nodes followed by the assignments
ProbVector(n) == ListAssign([k \in Nodes |-> P_0], ProbWrites(n))

RECURSIVE ProbSumHalves(_, _)
ProbSumHalves(vec, K) ==
    IF K = {} THEN 0
    ELSE LET k == CHOOSE e \in K : TRUE
         IN  (vec[k][1] * 2) \div vec[k][2] + ProbSumHalves(vec, K \ {k})

----------------------------------------------------------------------------
(* inplace_prepare_state(probabilities=prob, target=adjacent_vertices)     *)
(*                                                                         *)
(* The library guarantees U|0> = sum_k sqrt(prob[k]) |k> and nothing about *)
(* U on the other basis values.  U is taken as P . G . Q: Q exchanges the  *)
(* basis values 1 and c.k (it fixes 0), G is H or RY(pi/2) on the lowest   *)
(* qubit (only when two values share the probability), and P sends 0 and 1 *)
(* to the values with nonzero probability.  c is the synthesiser's choice. *)

Completions == [k : 1..(num_nodes - 1), ry : BOOLEAN]

Targets(vec) == {k \in Nodes : vec[k][1] # 0}

Lo(vec) == CHOOSE k \in Targets(vec) : \A m \in Targets(vec) : k <= m

Hi(vec) == CHOOSE k \in Targets(vec) : \A m \in Targets(vec) : m <= k

\* the distributions the notebook builds: one value with probability 1.0,
\* or two values with probability 0.5 each
OneTarget(vec) ==
    Cardinality(Targets(vec)) = 1 /\ \A k \in Targets(vec) : vec[k] = P_1_0

TwoTargets(vec) ==
    Cardinality(Targets(vec)) = 2 /\ \A k \in Targets(vec) : vec[k] = P_0_5

\* what the preparation reads off the vector: its kind and its targets
PrepShape(vec) ==
    Only({ [one |-> OneTarget(v), two |-> TwoTargets(v),
            lo |-> IF Targets(v) = {} THEN 0 ELSE Lo(v),
            hi |-> IF Targets(v) = {} THEN 0 ELSE Hi(v)] : v \in {vec} })

Tr(a, b, k) == IF k = a THEN b ELSE IF k = b THEN a ELSE k

\* P: 0 -> lo, and 1 -> hi when there are two targets
PermP(sh, k) ==
    IF sh.two THEN Tr(0, sh.lo, Tr(1, sh.hi, k)) ELSE Tr(0, sh.lo, k)

PermPInv(sh, k) ==
    IF sh.two THEN Tr(1, sh.hi, Tr(0, sh.lo, k)) ELSE Tr(0, sh.lo, k)

\* the basis permutation Q (its own inverse)
PermuteQ(x, c) ==
    Only({ [amp |-> [k \in Nodes |-> v.amp[Tr(1, c.k, k)]],
            hpow |-> v.hpow] : v \in {x} })

\* applying P: the amplitude of k comes from P^-1(k)
PermuteP(x, sh) ==
    Only({ [amp |-> [k \in Nodes |-> v.amp[PermPInv(sh, k)]],
            hpow |-> v.hpow] : v \in {x} })

\* applying P^-1
PermutePInv(x, sh) ==
    Only({ [amp |-> [k \in Nodes |-> v.amp[PermP(sh, k)]],
            hpow |-> v.hpow] : v \in {x} })

\* G on the lowest qubit: H, or RY(pi/2) = [[1,-1],[1,1]]/sqrt(2)
CoinGate(x, ry) ==
    Only({ [amp |-> [k \in Nodes |->
                       LET e == k - (k % 2)
                       IN  IF k % 2 = 0
                           THEN IF ry THEN v.amp[e] - v.amp[e + 1]
                                      ELSE v.amp[e] + v.amp[e + 1]
                           ELSE IF ry THEN v.amp[e] + v.amp[e + 1]
                                      ELSE v.amp[e] - v.amp[e + 1]],
            hpow |-> v.hpow + 1] : v \in {x} })

CoinGateInv(x, ry) ==
    Only({ [amp |-> [k \in Nodes |->
                       LET e == k - (k % 2)
                       IN  IF k % 2 = 0
                           THEN v.amp[e] + v.amp[e + 1]
                           ELSE IF ry THEN v.amp[e + 1] - v.amp[e]
                                      ELSE v.amp[e] - v.amp[e + 1]],
            hpow |-> v.hpow + 1] : v \in {x} })

PrepareWith(sh, c, x) ==
    IF ~(sh.one \/ sh.two) THEN x
    ELSE PermuteP(IF sh.two THEN CoinGate(PermuteQ(x, c), c.ry)
                  ELSE PermuteQ(x, c), sh)

inplace_prepare_state(vec, c, x) ==
    Only({ PrepareWith(sh, c, x) : sh \in {PrepShape(vec)} })

\* the uncompute block of within_apply in C_iteration
InvPrepareWith(sh, c, x) ==
    IF ~(sh.one \/ sh.two) THEN x
    ELSE PermuteQ(IF sh.two THEN CoinGateInv(PermutePInv(x, sh), c.ry)
                  ELSE PermutePInv(x, sh), c)

inv_inplace_prepare_state(vec, c, x) ==
    Only({ InvPrepareWith(sh, c, x) : sh \in {PrepShape(vec)} })

----------------------------------------------------------------------------
(* C_iteration on the joint state of (vertices, adjacent_vertices) *)

Pow2(n) == 2^n

\* the state of adjacent_vertices in the branch vertices == n
Branch(s, n) ==
    Only({ [amp |-> [k \in Nodes |-> v.amp[<<n, k>>]], hpow |-> v.hpow]
           : v \in {s} })

\* compute and action without the uncompute
CoinBlockNoUncompute(vec, c, x) ==
    Only({ zero_diffuzer(inplace_prepare_state(v, c, x)) : v \in {vec} })

\* within_apply(compute = inplace_prepare_state, action = zero_diffuzer):
\* compute, action, then the inverse of compute
CoinBlock(vec, c, x) ==
    Only({ inv_inplace_prepare_state(v, c,
               zero_diffuzer(inplace_prepare_state(v, c, x))) : v \in {vec} })

\* control(ctrl = vertices == n, operand = within_apply(...)): the operand
\* acts on adjacent_vertices in the branch vertices == n, and the other
\* branches keep their amplitudes; both parts are brought to the common
\* power h of sqrt 2 (the block adds an even number of H-type gates)
\* the two registers taken for each other: control on adjacent_vertices,
\* operand on vertices
MergeOnVertices(n, s, w) ==
    LET h == IF w.hpow > s.hpow THEN w.hpow ELSE s.hpow
        fw == Pow2((h - w.hpow) \div 2)
        fs == Pow2((h - s.hpow) \div 2)
    IN  [amp |-> [b \in Pairs |->
                    IF b[2] = n THEN w.amp[b[1]] * fw ELSE s.amp[b] * fs],
         hpow |-> h]

Merge(n, s, w) ==
    LET h == IF w.hpow > s.hpow THEN w.hpow ELSE s.hpow
        fw == Pow2((h - w.hpow) \div 2)
        fs == Pow2((h - s.hpow) \div 2)
    IN  [amp |-> [b \in Pairs |->
                    IF b[1] = n THEN w.amp[b[2]] * fw ELSE s.amp[b] * fs],
         hpow |-> h]

C_iteration(n, s, c) ==
    Reduce(Only({ Merge(n, s, w)
        : w \in {Reduce(CoinBlock(ProbVector(n), c, Branch(s, n)))} }))

----------------------------------------------------------------------------
(* edge_oracle, bitwise_swap, S_operator *)

\* a difference kept in size bits, unsigned: it wraps modulo 2^size
WrappedSub(v, a) == (v - a) % Pow2(size)

\* vertices - adjacent_vertices: two unsigned size-bit numbers give a signed
\* result of size + 1 bits, so the difference does not wrap
SignedSub(v, a) ==
    LET m == Pow2(size + 1)
        r == (v - a) % m
    IN  IF r >= m \div 2 THEN r - m ELSE r

\* the test in one direction only
EdgeBitOneWay(v, a) == IF SignedSub(v, a) = 1 THEN 1 ELSE 0

\* (vertices - adjacent_vertices) == 1 | (vertices - adjacent_vertices) == -1
EdgeBit(v, a) ==
    IF SignedSub(v, a) = 1 \/ SignedSub(v, a) = -1 THEN 1 ELSE 0

\* res |= ...: res is initialised to the value of the expression
edge_oracle(s) ==
    Only({ [amp |-> [t \in Triples |->
                       IF t[3] = EdgeBit(t[1], t[2]) THEN v.amp[<<t[1], t[2]>>]
                       ELSE 0],
            hpow |-> v.hpow] : v \in {s} })

Bit(x, j) == (x \div Pow2(j)) % 2

\* SWAP(x[j], y[j]) on the basis values of the two arrays
SWAP(xy, j) ==
    Only({ << v[1] + (Bit(v[2], j) - Bit(v[1], j)) * Pow2(j),
              v[2] + (Bit(v[1], j) - Bit(v[2], j)) * Pow2(j) >> : v \in {xy} })

\* repeat(count, iteration = SWAP(x[j], y[j])) for j = 0 .. count - 1
RECURSIVE repeat_swap(_, _)
repeat_swap(xy, count) ==
    IF count = 0 THEN xy
    ELSE SWAP(repeat_swap(xy, count - 1), count - 1)

\* a swap that stops one qubit short
bitwise_swap_short(xy) == repeat_swap(xy, size - 1)

\* bitwise_swap(x, y): count = x.len
bitwise_swap(xy) == repeat_swap(xy, size)

\* control(ctrl = res == 1, operand = bitwise_swap(vertices, adjacent));
\* bitwise_swap is its own inverse, so the amplitude of a basis value comes
\* from its image
controlled_swap(s) ==
    Only({ [amp |-> [t \in Triples |->
                       IF t[3] = 1
                       THEN v.amp[bitwise_swap(<<t[1], t[2]>>) \o <<t[3]>>]
                       ELSE v.amp[t]],
            hpow |-> v.hpow] : v \in {s} })

S_operator(s) == controlled_swap(edge_oracle(s))

----------------------------------------------------------------------------
(* main: allocate, hadamard_transform *)

\* H on qubit j of vertices
H_vertices(s, j) ==
    Only({ [amp |-> [b \in Pairs |->
                       LET lo == b[1] - Bit(b[1], j) * Pow2(j)
                       IN  IF Bit(b[1], j) = 0
                           THEN v.amp[<<lo, b[2]>>] + v.amp[<<lo + Pow2(j), b[2]>>]
                           ELSE v.amp[<<lo, b[2]>>] - v.amp[<<lo + Pow2(j), b[2]>>]],
            hpow |-> v.hpow + 1] : v \in {s} })

\* hadamard_transform(vertices): H on each of its n qubits
RECURSIVE hadamard_transform(_, _)
hadamard_transform(s, n) ==
    IF n = 0 THEN s ELSE H_vertices(hadamard_transform(s, n - 1), n - 1)

----------------------------------------------------------------------------
(* The run of main *)

\* main with the shift ahead of the coin
MainSwapped(p) ==
    CASE p = "allocate_vertices" -> "hadamard_transform"
      [] p = "hadamard_transform" -> "allocate_adjacent_vertices"
      [] p = "allocate_adjacent_vertices" -> "S_operator"
      [] p = "S_operator" -> "C_operator"
      [] OTHER -> "done"

\* the statement of main that follows statement p
MainNext(p) ==
    CASE p = "allocate_vertices" -> "hadamard_transform"
      [] p = "hadamard_transform" -> "allocate_adjacent_vertices"
      [] p = "allocate_adjacent_vertices" -> "C_operator"
      [] p = "C_operator" -> "S_operator"
      [] OTHER -> "done"

NoProb == [built |-> FALSE, n |-> 0, vec |-> [k \in Nodes |-> P_0], writes |-> <<>>]

BuiltProb(n) ==
    [built |-> TRUE, n |-> n, vec |-> ProbVector(n), writes |-> ProbWrites(n)]

Init ==
    /\ pc = "allocate_vertices"
    /\ i = 0
    /\ q = BasisPair(0, 0)
    /\ prob = NoProb
    /\ zd = allocate_aux(BasisReg(0))
    /\ inp = <<0, 0>>
    /\ trace = <<>>
    /\ width = [vertices |-> 0, adjacent_vertices |-> 0]

\* allocate(size, vertices)
AllocateVertices ==
    /\ pc = "allocate_vertices"
    /\ width' = [width EXCEPT !.vertices = size]
    /\ trace' = Append(trace, pc)
    /\ pc' = MainNext(pc)
    /\ UNCHANGED <<i, q, prob, zd, inp>>

\* hadamard_transform(vertices)
HadamardTransform ==
    /\ pc = "hadamard_transform"
    /\ q' = hadamard_transform(q, width.vertices)
    /\ trace' = Append(trace, pc)
    /\ pc' = MainNext(pc)
    /\ UNCHANGED <<i, prob, zd, inp, width>>

\* allocate(size, adjacent_vertices)
AllocateAdjacent ==
    /\ pc = "allocate_adjacent_vertices"
    /\ width' = [width EXCEPT !.adjacent_vertices = size]
    /\ trace' = Append(trace, pc)
    /\ pc' = MainNext(pc)
    /\ UNCHANGED <<i, q, prob, zd, inp>>

\* C_operator: for i in range(num_nodes): C_iteration(i, ...); one step per
\* iteration, the last one ends the statement
CIteration ==
    /\ pc = "C_operator"
    /\ i < num_nodes
    /\ \E c \in Completions : q' = C_iteration(i, q, c)
    /\ prob' = BuiltProb(i)
    /\ i' = i + 1
    /\ IF i + 1 = num_nodes
       THEN trace' = Append(trace, pc) /\ pc' = MainNext(pc)
       ELSE UNCHANGED <<trace, pc>>
    /\ UNCHANGED <<zd, inp, width>>

\* S_operator(vertices, adjacent_vertices)
SOperator ==
    /\ pc = "S_operator"
    /\ q' = S_operator(q)
    /\ trace' = Append(trace, pc)
    /\ pc' = MainNext(pc)
    /\ UNCHANGED <<i, prob, zd, inp, width>>

Next ==
    \/ AllocateVertices
    \/ HadamardTransform
    \/ AllocateAdjacent
    \/ CIteration
    \/ SOperator

Spec == Init /\ [][Next]_vars

----------------------------------------------------------------------------
(* The functions of the notebook applied to every basis input *)

InitUnit ==
    /\ pc = "input"
    /\ i = 0
    /\ inp \in Pairs
    /\ q = BasisPair(inp[1], inp[2])
    /\ prob = NoProb
    /\ zd = allocate_aux(BasisReg(inp[2]))
    /\ trace = <<>>
    /\ width = [vertices |-> size, adjacent_vertices |-> size]

\* edge_oracle(res, vertices, adjacent_vertices)
UnitEdgeOracle ==
    /\ pc = "input"
    /\ q' = edge_oracle(q)
    /\ pc' = "edge_oracle"
    /\ UNCHANGED <<i, prob, zd, inp, trace, width>>

\* S_operator(vertices, adjacent_vertices)
UnitSOperator ==
    /\ pc = "input"
    /\ q' = S_operator(q)
    /\ pc' = "S_operator"
    /\ UNCHANGED <<i, prob, zd, inp, trace, width>>

\* zero_diffuzer(adjacent_vertices)
UnitZeroDiffuzer ==
    /\ pc = "input"
    /\ zd' = Reduce(zero_diffuzer_aux(BasisReg(inp[2])))
    /\ pc' = "zero_diffuzer"
    /\ UNCHANGED <<i, q, prob, inp, trace, width>>

\* C_iteration(n, vertices, adjacent_vertices), for the index n that matches
\* the value of vertices and for the one that matches adjacent_vertices
UnitCIteration ==
    /\ pc = "input"
    /\ \E n \in {inp[1], inp[2]} : \E c \in Completions :
          /\ q' = C_iteration(n, q, c)
          /\ prob' = BuiltProb(n)
          /\ i' = n
    /\ pc' = "C_iteration"
    /\ UNCHANGED <<zd, inp, trace, width>>

NextUnit ==
    \/ UnitEdgeOracle
    \/ UnitSOperator
    \/ UnitZeroDiffuzer
    \/ UnitCIteration

SpecUnit == InitUnit /\ [][NextUnit]_vars

----------------------------------------------------------------------------
(* Properties *)

Abs(n) == IF n < 0 THEN -n ELSE n

MainOrder ==
    <<"allocate_vertices", "hadamard_transform", "allocate_adjacent_vertices",
      "C_operator", "S_operator">>

\* C1: the vector built by C_iteration(n) is the neighbour distribution of
\* the path graph: prob[1] = 1.0 alone for n = 0, prob[14] = 1.0 alone for
\* n = 15, prob[n-1] = prob[n+1] = 0.5 alone otherwise; prob[n] = 0, every
\* written index lies in 0..15, and the entries sum to 1.
C1_NeighbourDistribution ==
    prob.built =>
        /\ DOMAIN prob.vec = Nodes
        /\ \A k \in 1..Len(prob.writes) : prob.writes[k][1] \in Nodes
        /\ \A k \in Nodes :
              prob.vec[k] =
                 IF prob.n = 0 THEN (IF k = 1 THEN P_1_0 ELSE P_0)
                 ELSE IF prob.n = num_nodes - 1
                      THEN (IF k = num_nodes - 2 THEN P_1_0 ELSE P_0)
                      ELSE (IF k = prob.n - 1 \/ k = prob.n + 1
                            THEN P_0_5 ELSE P_0)
        /\ prob.vec[prob.n] = P_0
        /\ ProbSumHalves(prob.vec, Nodes) = 2

C1_Witness ==
    /\ pc = "done"
    /\ prob.built
    /\ prob.n = num_nodes - 1
    /\ prob.vec[num_nodes - 2] = P_1_0

\* C2: on the basis input (a, b), edge_oracle sets res to 1 exactly when
\* |a - b| = 1, the difference being a signed integer: (0, 15) and (15, 0)
\* give res = 0.
C2_EdgeIffDistanceOne ==
    pc = "edge_oracle" =>
        /\ q.hpow = 0
        /\ \A t \in Triples :
              q.amp[t] =
                 IF t = <<inp[1], inp[2],
                          IF Abs(inp[1] - inp[2]) = 1 THEN 1 ELSE 0>>
                 THEN 1 ELSE 0

C2_Witness ==
    /\ pc = "edge_oracle"
    /\ inp = <<0, num_nodes - 1>>
    /\ q.amp[<<0, num_nodes - 1, 0>>] = 1

\* C3: on the basis input (v, a), S_operator yields (a, v), every one of the
\* 4 bit positions exchanged, when the edge predicate is 1, and leaves (v, a)
\* bit for bit when it is 0.
C3_ShiftSwapsIffEdge ==
    pc = "S_operator" =>
        /\ Cardinality(Supp(q)) = 1
        /\ \A t \in Supp(q) :
              /\ q.amp[t] = 1
              /\ t[3] = (IF Abs(inp[1] - inp[2]) = 1 THEN 1 ELSE 0)
              /\ \A j \in 0..(size - 1) :
                    IF t[3] = 1
                    THEN Bit(t[1], j) = Bit(inp[2], j)
                         /\ Bit(t[2], j) = Bit(inp[1], j)
                    ELSE Bit(t[1], j) = Bit(inp[1], j)
                         /\ Bit(t[2], j) = Bit(inp[2], j)
              /\ t[1] \in Nodes /\ t[2] \in Nodes

C3_Witness ==
    /\ pc = "S_operator"
    /\ inp = <<7, 8>>
    /\ q.amp[<<8, 7, 1>>] = 1

\* C4 as claimed: after main, every pair (v', a') with nonzero amplitude has
\* |v' - a'| <= 1.
C4_Claimed ==
    pc = "done" => \A p \in SuppPairs(q) : Abs(p[1] - p[2]) <= 1

\* C4 amended: after main, every pair (v', a') with nonzero amplitude is
\* (v', 0) with v' # 1, or stems from the branch vertices = 1 and is (2, 1)
\* or (1, a') with a' not in {0, 2}.
C4_SupportAfterMain ==
    pc = "done" =>
        \A p \in SuppPairs(q) :
           \/ p[2] = 0 /\ p[1] # 1
           \/ p = <<2, 1>>
           \/ p[1] = 1 /\ p[2] \notin {0, 2}

C4_Witness ==
    /\ pc = "done"
    /\ <<num_nodes - 1, 0>> \in SuppPairs(q)
    /\ <<2, 1>> \in SuppPairs(q)

\* C5 as claimed: after main, the support holds only pairs (v, v - 1) and
\* (v, v + 1).
C5_Claimed ==
    pc = "done" =>
        \A p \in SuppPairs(q) : p[2] = p[1] - 1 \/ p[2] = p[1] + 1

\* C5 amended: after main, for every v # 1 the pair (v, 0) has amplitude
\* -1/4; vertex 0 and vertex 15 occur with adjacent value 0 only; a pair
\* with adjacent value # 0 has vertices in {1, 2}, and (2, 1) is the only
\* pair of neighbours that can occur.
C5_PairsAfterMain ==
    pc = "done" =>
        /\ q.hpow = size
        /\ \A v \in Nodes \ {1} : q.amp[<<v, 0, 0>>] = -1
        /\ \A p \in SuppPairs(q) :
              /\ p[1] \in {0, num_nodes - 1} => p[2] = 0
              /\ p[2] # 0 => p[1] \in {1, 2}
              /\ Abs(p[1] - p[2]) = 1 => p \in {<<2, 1>>}

C5_Witness ==
    /\ pc = "done"
    /\ q.amp[<<0, 0, 0>>] = -1
    /\ <<1, 1>> \in SuppPairs(q)

\* C6: the edge predicate is symmetric: the bit edge_oracle computes for
\* (a, b) is the bit for (b, a).
C6_EdgeSymmetric ==
    pc = "edge_oracle" =>
        /\ Supp(q) # {}
        /\ \A t \in Supp(q) :
              \A u \in Supp(edge_oracle(BasisPair(inp[2], inp[1]))) :
                 t[3] = u[3]

C6_Witness ==
    /\ pc = "edge_oracle"
    /\ inp[1] + 1 = inp[2]
    /\ <<inp[1], inp[2], 1>> \in Supp(q)

\* C7: main runs allocate vertices, hadamard_transform, allocate
\* adjacent_vertices, C_operator, S_operator in this order, each once; both
\* registers have 4 qubits, and when C_operator starts vertices is in uniform
\* superposition and adjacent_vertices is all zero; S_operator starts only
\* after the 16 iterations of C_operator.
C7_MainOrder ==
    /\ Len(trace) <= Len(MainOrder)
    /\ trace = SubSeq(MainOrder, 1, Len(trace))
    /\ pc = (IF Len(trace) < Len(MainOrder)
             THEN MainOrder[Len(trace) + 1] ELSE "done")
    /\ (pc = "C_operator" /\ i = 0) =>
          /\ width = [vertices |-> 4, adjacent_vertices |-> 4]
          /\ q.hpow = 4
          /\ \A b \in Pairs : q.amp[b] = (IF b[2] = 0 THEN 1 ELSE 0)
    /\ pc = "C_operator" => i < num_nodes
    /\ pc \in {"S_operator", "done"} => i = num_nodes

C7_Witness ==
    /\ pc = "done"
    /\ trace = MainOrder

\* C8: zero_diffuzer keeps the basis value x and multiplies its amplitude by
\* -1 when x # 0 and by +1 when x = 0.
C8_PhaseFlipOnNonzero ==
    pc = "zero_diffuzer" =>
        /\ zd.hpow = 0
        /\ \A b \in Supp(zd) : b[1] = inp[2]
        /\ zd.amp[<<inp[2], 0>>] = (IF inp[2] = 0 THEN 1 ELSE -1)

C8_Witness ==
    /\ pc = "zero_diffuzer"
    /\ inp[2] = 5
    /\ zd.amp[<<5, 0>>] = -1

\* C9: at the end of zero_diffuzer the auxiliary qubit is back in state 0
\* for every basis value x, whether or not the flip fired.
C9_AuxReturnsToZero ==
    pc = "zero_diffuzer" =>
        /\ Supp(zd) # {}
        /\ \A b \in Supp(zd) : b[2] = 0

C9_Witness ==
    /\ pc = "zero_diffuzer"
    /\ inp[2] # 0
    /\ <<inp[2], 0>> \in Supp(zd)
    /\ <<inp[2], 1>> \notin Supp(zd)

\* C10: C_iteration keeps the basis value of vertices: from the basis input
\* (v, a) every pair with nonzero amplitude has first component v, and the
\* probability of vertices = v stays 1.
C10_CoinKeepsVertices ==
    pc = "C_iteration" =>
        /\ \A b \in Supp(q) : b[1] = inp[1]
        /\ VProbNum(q, inp[1]) = Pow2(q.hpow)

C10_Witness ==
    /\ pc = "C_iteration"
    /\ i = inp[1]
    /\ <<inp[1], inp[2]>> \notin Supp(q)
    /\ \E b \in Supp(q) : b[1] = inp[1]

====
